---------------------------- MODULE Spec2Model ----------------------------
(***************************************************************************)
(* Drone altitude guardian: the environment (DroneEnvironment.ts), the two *)
(* policies (ReflexAgent.ts, ModelBasedAgent.ts), the recovery planner     *)
(* (AStarPlanner.ts) and the per-tick orchestration of the DroneSimulation *)
(* component (unnamed/part_000).                                           *)
(*                                                                         *)
(* Timestamps (Date.now()) are left out of every record: no operation      *)
(* reads them back.  Math.random() is a nondeterministic choice among the  *)
(* outcomes that have a positive probability.                              *)
(***************************************************************************)
EXTENDS Integers, Sequences, FiniteSets, TLC

VARIABLES
    altitude,       \* DroneEnvironment.altitude
    history,        \* DroneEnvironment.history
    windIntensity,  \* DroneEnvironment.windIntensity, in percent
    windCalls,      \* number of applyWind calls since construction / reset
    reflexLog,      \* ReflexAgent.actionHistory
    windHistory,    \* ModelBasedAgent.windHistory
    mbLog,          \* ModelBasedAgent.actionHistory
    observed,       \* values given to updateModel since construction / reset
    search,         \* the locals of a running AStarPlanner.findPath call
    planLog,        \* results returned by the completed findPath calls
    currentAgent,   \* DroneSimulation: currentAgent
    isRunning,      \* DroneSimulation: isRunning
    step,           \* DroneSimulation: step
    logs,           \* DroneSimulation: logs
    trace           \* calls made by the last operation, with arguments and results

envVars     == <<altitude, history, windIntensity, windCalls>>
reflexVars  == <<reflexLog>>
mbVars      == <<windHistory, mbLog, observed>>
plannerVars == <<search, planLog>>
driverVars  == <<currentAgent, isRunning, step, logs>>
vars == <<altitude, history, windIntensity, windCalls, reflexLog, windHistory,
          mbLog, observed, search, planLog, currentAgent, isRunning, step,
          logs, trace>>

----------------------------------------------------------------------------
(* Bounds of the model *)

\* arguments of the constructor and of reset range over
\* MIN_ALTITUDE - InputSlack .. MAX_ALTITUDE + InputSlack
InputSlack == 3
\* applyWind is called at most MaxWindCalls times between two resets
MaxWindCalls == 1
\* ReflexAgent.decideAction is called at most MaxReflexLog times between two resets
MaxReflexLog == 2
\* ModelBasedAgent.decideAction is called at most MaxModelLog times between two resets
MaxModelLog == 1
\* a client of the ModelBasedAgent alone calls updateModel at most MaxUpdates
\* times between two resets
MaxUpdates == 5
\* a client of the AStarPlanner alone makes at most MaxPlans findPath calls
MaxPlans == 2
\* the simulation runs at most MaxSteps ticks between two resets
MaxSteps == 4
\* a client that only feeds the wind window calls updateModel at most
\* MaxObserved times between two resets
MaxObserved == 7
\* a client that decides, explains and asks for the trend calls updateModel
\* at most MaxBeliefUpdates times between two resets
MaxBeliefUpdates == 2
\* the orchestration started with any wind window runs at most MaxLoopTicks
\* ticks between two resets
MaxLoopTicks == 1

----------------------------------------------------------------------------
(* DroneEnvironment *)

MIN_ALTITUDE == 0
MAX_ALTITUDE == 10
SAFE_MIN == 4
SAFE_MAX == 6

Max(a, b) == IF a >= b THEN a ELSE b
Min(a, b) == IF a <= b THEN a ELSE b

Winds == {-1, 0, 1}
Adjustments == {-1, 0, 1}
AltitudeInputs == (MIN_ALTITUDE - InputSlack)..(MAX_ALTITUDE + InputSlack)
\* Math.max(MIN_ALTITUDE, Math.min(MAX_ALTITUDE, x))
ClampAltitude(x) == Max(MIN_ALTITUDE, Min(MAX_ALTITUDE, x))

\* the outcomes of generateWind that have a positive probability; the
\* probabilities are scaled by 10000 (noWindProbability = (1-wi)*0.67 + 0.33)
GenerateWind(wi) ==
    LET noWind == (100 - wi) * 67 + 3300
        negBelow == (10000 - noWind) \div 2          \* random < negBelow: -1
        zeroBelow == noWind + (10000 - noWind) \div 2 \* random < zeroBelow: 0
    IN  {w \in Winds : \/ w = -1 /\ negBelow > 0
                       \/ w = 0 /\ zeroBelow > negBelow
                       \/ w = 1 /\ zeroBelow < 10000}

IsInSafeZone(a) == a >= SAFE_MIN /\ a <= SAFE_MAX

IsCriticalWide(a) == a < SAFE_MIN \/ a > SAFE_MAX
\* isCritical with the two limits included
IsCriticalInclusive(a) == a <= 3 \/ a >= 7
IsCritical(a) == a < 3 \/ a > 7

\* the record pushed by recordState(wind) when the altitude is a
StateRecordStale(a, wind) == [altitude |-> a - wind, wind |-> wind,
                              isStable |-> IsInSafeZone(a - wind)]
StateRecord(a, wind) == [altitude |-> a, wind |-> wind, isStable |-> IsInSafeZone(a)]

RecordState(hist, a, wind) == Append(hist, StateRecord(a, wind))

\* new DroneEnvironment(initialAltitude); windIntensity starts at 1.0
EnvInit(x) ==
    /\ altitude = ClampAltitude(x)
    /\ history = RecordState(<<>>, ClampAltitude(x), 0)
    /\ windIntensity = 100
    /\ windCalls = 0

\* the intensities a client passes to setWindIntensity, in percent: below 0,
\* 0.0 and above 1
IntensityInputs == {-50, 0, 150}

\* Math.max(0, Math.min(1, intensity)), in percent
ClampIntensity(intensity) == Max(0, Min(100, intensity))

\* setWindIntensity(intensity); the component never calls it
SetWindIntensity(intensity) ==
    /\ windIntensity' = ClampIntensity(intensity)
    /\ trace' = <<[op |-> "environment.setWindIntensity", arg |-> intensity]>>
    /\ UNCHANGED <<altitude, history, windCalls>>

\* isInSafeZone()
IsInSafeZoneQuery ==
    /\ trace' = <<[op |-> "environment.isInSafeZone", ret |-> IsInSafeZone(altitude)]>>
    /\ UNCHANGED envVars

\* isCritical()
IsCriticalQuery ==
    /\ trace' = <<[op |-> "environment.isCritical", ret |-> IsCritical(altitude)]>>
    /\ UNCHANGED envVars

\* the altitude after applyWind drew wind at altitude a
AltitudeAfterWind(a, wind) == ClampAltitude(a + wind)

ApplyWind ==
    /\ windCalls < MaxWindCalls
    /\ \E wind \in GenerateWind(windIntensity) :
        /\ altitude' = AltitudeAfterWind(altitude, wind)
        /\ history' = RecordState(history, altitude', wind)
        /\ trace' = <<[op |-> "environment.applyWind", ret |-> wind]>>
    /\ windCalls' = windCalls + 1
    /\ UNCHANGED windIntensity

ApplyActionNoClamp(a, adjustment) == a + adjustment
ApplyActionResult(a, adjustment) == ClampAltitude(a + adjustment)

\* applyAction pushes no record
HistoryAfterActionRecorded(hist, a) == RecordState(hist, a, 0)
HistoryAfterAction(hist, a) == hist

ApplyAction(adjustment) ==
    /\ altitude' = ApplyActionResult(altitude, adjustment)
    /\ history' = HistoryAfterAction(history, altitude')
    /\ trace' = <<[op |-> "environment.applyAction", arg |-> adjustment]>>
    /\ UNCHANGED <<windIntensity, windCalls>>

\* the altitudes a client passes to reset: every level, and one beyond each
\* end of the range
ResetInputs == (MIN_ALTITUDE - 1)..(MAX_ALTITUDE + 1)

ResetKeepHistory(hist, x) == RecordState(hist, ClampAltitude(x), 0)
ResetHistory(hist, x) == RecordState(<<>>, ClampAltitude(x), 0)

Reset(x) ==
    /\ altitude' = ClampAltitude(x)
    /\ history' = ResetHistory(history, x)
    /\ windCalls' = 0
    /\ trace' = <<[op |-> "environment.reset", arg |-> x]>>
    /\ UNCHANGED windIntensity

----------------------------------------------------------------------------
(* ReflexAgent; its SAFE_MIN and SAFE_MAX are those of the environment *)

ReflexActionInclusive(currentAltitude) ==
    IF currentAltitude <= SAFE_MIN THEN 1
    ELSE IF currentAltitude >= SAFE_MAX THEN -1
    ELSE 0
\* decideAction that never corrects
ReflexActionIdle(currentAltitude) == 0

\* decideAction that corrects only outside the limits of isCritical
ReflexActionCriticalOnly(currentAltitude) ==
    IF currentAltitude < 3 THEN 1
    ELSE IF currentAltitude > 7 THEN -1
    ELSE 0

\* decideAction with the two corrections exchanged
ReflexActionSwapped(currentAltitude) ==
    IF currentAltitude < SAFE_MIN THEN -1
    ELSE IF currentAltitude > SAFE_MAX THEN 1
    ELSE 0
\* the action chosen by decideAction(currentAltitude)
ReflexAction(currentAltitude) ==
    IF currentAltitude < SAFE_MIN THEN 1
    ELSE IF currentAltitude > SAFE_MAX THEN -1
    ELSE 0

\* recordAction(altitude, action)
ReflexRecordAction(log, a, action) == Append(log, [altitude |-> a, action |-> action])

ReflexDecide(a) ==
    /\ Len(reflexLog) < MaxReflexLog
    /\ reflexLog' = ReflexRecordAction(reflexLog, a, ReflexAction(a))
    /\ trace' = <<[op |-> "reflexAgent.decideAction", arg |-> a,
                   ret |-> ReflexAction(a)]>>

ReflexReset ==
    /\ reflexLog' = <<>>
    /\ trace' = <<[op |-> "reflexAgent.reset"]>>

----------------------------------------------------------------------------
(* ModelBasedAgent; its SAFE_MIN and SAFE_MAX are those of the environment *)

HISTORY_WINDOW == 5

RECURSIVE SumSeq(_)
\* windHistory.reduce((acc, wind) => acc + wind, 0)
SumSeq(s) == IF s = <<>> THEN 0 ELSE s[1] + SumSeq(Tail(s))

Abs(x) == IF x < 0 THEN -x ELSE x
RECURSIVE Gcd(_, _)
Gcd(a, b) == IF b = 0 THEN a ELSE Gcd(b, a % b)
\* the number n/d (d > 0) in lowest terms: equal numbers are equal records
Rat(n, d) == LET g == Gcd(Abs(n), d) IN [num |-> n \div g, den |-> d \div g]
RatLess(p, q) == p.num * q.den < q.num * p.den

\* pop where the code has shift: the newest value is the one dropped
WindowPushPop(window, wind) ==
    LET pushed == Append(window, wind)
    IN  IF Len(pushed) > HISTORY_WINDOW THEN SubSeq(pushed, 1, HISTORY_WINDOW) ELSE pushed
\* updateModel(wind): push, then shift when longer than HISTORY_WINDOW
WindowPush(window, wind) ==
    LET pushed == Append(window, wind)
    IN  IF Len(pushed) > HISTORY_WINDOW THEN Tail(pushed) ELSE pushed

\* getWindTrend without the division by the length
WindTrendSum(window) ==
    IF Len(window) = 0 THEN Rat(0, 1) ELSE Rat(SumSeq(window), 1)

\* getWindTrend()
WindTrend(window) ==
    IF Len(window) = 0 THEN Rat(0, 1) ELSE Rat(SumSeq(window), Len(window))

\* predictNextAltitude(currentAltitude) = currentAltitude + windTrend
PredictNextAltitude(currentAltitude, window) ==
    LET t == WindTrend(window)
    IN  Rat(currentAltitude * t.den + t.num, t.den)

\* a decision that looks at the forecast only
ModelActionForecastOnly(currentAltitude, window) ==
    LET predicted == PredictNextAltitude(currentAltitude, window)
    IN  IF RatLess(predicted, Rat(SAFE_MIN, 1)) THEN 1
        ELSE IF RatLess(Rat(SAFE_MAX, 1), predicted) THEN -1
        ELSE 0
\* a decision whose forecast thresholds include the band's ends
ModelActionInclusive(currentAltitude, window) ==
    LET predicted == PredictNextAltitude(currentAltitude, window)
    IN  IF ~RatLess(Rat(SAFE_MIN, 1), predicted) THEN 1
        ELSE IF ~RatLess(predicted, Rat(SAFE_MAX, 1)) THEN -1
        ELSE IF currentAltitude < SAFE_MIN THEN 1
        ELSE IF currentAltitude > SAFE_MAX THEN -1
        ELSE 0
\* the action chosen by decideAction(currentAltitude)
ModelAction(currentAltitude, window) ==
    LET predicted == PredictNextAltitude(currentAltitude, window)
    IN  IF RatLess(predicted, Rat(SAFE_MIN, 1)) THEN 1
        ELSE IF RatLess(Rat(SAFE_MAX, 1), predicted) THEN -1
        ELSE IF currentAltitude < SAFE_MIN THEN 1
        ELSE IF currentAltitude > SAFE_MAX THEN -1
        ELSE 0

\* recordAction(altitude, predictedAltitude, action, windTrend)
ModelRecordAction(log, a, predicted, action, trend) ==
    Append(log, [altitude |-> a, predictedAltitude |-> predicted,
                 action |-> action, windTrend |-> trend])

UpdateModel(wind) ==
    /\ windHistory' = WindowPush(windHistory, wind)
    /\ UNCHANGED mbLog
    /\ trace' = <<[op |-> "modelBasedAgent.updateModel", arg |-> wind]>>

\* decideAction reads the window and leaves it as it is
WindowAfterDecideShifted(window) == IF window = <<>> THEN window ELSE Tail(window)
WindowAfterDecide(window) == window

ModelDecide(a) ==
    /\ mbLog' = ModelRecordAction(mbLog, a, PredictNextAltitude(a, windHistory),
                                  ModelAction(a, windHistory), WindTrend(windHistory))
    /\ windHistory' = WindowAfterDecide(windHistory)
    /\ trace' = <<[op |-> "modelBasedAgent.decideAction", arg |-> a,
                   ret |-> ModelAction(a, windHistory)]>>

\* Number.prototype.toFixed(digits) of the number r: the sign, and the
\* magnitude times 10^digits rounded to the nearest integer, the larger one
\* on a tie
ToFixed(r, digits) ==
    LET scale == IF digits = 1 THEN 10 ELSE 100
        n == Abs(r.num) * scale
    IN  [negative |-> r.num < 0, scaled |-> (2 * n + r.den) \div (2 * r.den),
         digits |-> digits]

\* the text returned by explainAction(altitude, action), by its parts
Explanation(a, action, window) ==
    LET windTrend == ToFixed(WindTrend(window), 2)
        predicted == ToFixed(PredictNextAltitude(a, window), 1)
    IN  IF action = 1
            THEN [predicted |-> predicted, trend |-> windTrend, text |-> "Increase +1"]
        ELSE IF action = -1
            THEN [predicted |-> predicted, trend |-> windTrend, text |-> "Decrease -1"]
        ELSE [predicted |-> predicted, text |-> "in safe zone, No adjustment"]

\* explainAction(altitude, action)
ModelExplain(a, action) ==
    /\ trace' = <<[op |-> "modelBasedAgent.explainAction", arg |-> a, action |-> action,
                   ret |-> Explanation(a, action, windHistory)]>>
    /\ UNCHANGED <<windHistory, mbLog>>

\* getCurrentWindTrend()
ModelGetCurrentWindTrend ==
    /\ trace' = <<[op |-> "modelBasedAgent.getCurrentWindTrend",
                   ret |-> WindTrend(windHistory)]>>
    /\ UNCHANGED <<windHistory, mbLog>>

ModelReset ==
    /\ windHistory' = <<>>
    /\ mbLog' = <<>>
    /\ trace' = <<[op |-> "modelBasedAgent.reset"]>>

----------------------------------------------------------------------------
(* AStarPlanner; its bounds and safe band are those of the environment *)

POSSIBLE_ACTIONS == <<-1, 0, 1>>
\* stands for the value Infinity: above every cost a search can produce
Infinity == 1000000

\* the distance to the middle of the band instead of to the band
HeuristicFromCentre(a) == IF a >= 5 THEN a - 5 ELSE 5 - a

\* heuristic(altitude)
Heuristic(a) ==
    IF a >= SAFE_MIN /\ a <= SAFE_MAX THEN 0
    ELSE IF a < SAFE_MIN THEN SAFE_MIN - a
    ELSE a - SAFE_MAX

IsGoalStrict(a) == a > SAFE_MIN /\ a < SAFE_MAX
\* isGoal(altitude)
IsGoal(a) == a >= SAFE_MIN /\ a <= SAFE_MAX

\* A search node; parent is the index of the parent node in the sequence of
\* all nodes created by the call, 0 for null.
Node(a, g, h, parent, action) ==
    [altitude |-> a, gCost |-> g, hCost |-> h, fCost |-> g + h,
     parent |-> parent, action |-> action]

RECURSIVE LowestFrom(_, _, _, _)
\* the reduce of findLowestFCost: open is a sequence of node indices
LowestFrom(nodes, open, i, lowest) ==
    IF i > Len(open) THEN lowest
    ELSE LowestFrom(nodes, open, i + 1,
                    IF nodes[open[i]].fCost < nodes[lowest].fCost THEN open[i] ELSE lowest)

\* the head of the open set, whatever its fCost
FindFirst(nodes, open) == open[1]

\* findLowestFCost(openSet): no initial value, so the first node starts as lowest
FindLowestFCost(nodes, open) == LowestFrom(nodes, open, 2, open[1])

\* openSet.indexOf(x)
IndexOf(seq, x) == CHOOSE i \in 1..Len(seq) : seq[i] = x /\ \A j \in 1..(i - 1) : seq[j] # x

\* openSet.splice(i, 1)
RemoveAt(seq, i) == SubSeq(seq, 1, i - 1) \o SubSeq(seq, i + 1, Len(seq))

RECURSIVE ReconstructFrom(_, _, _, _)
ReconstructFrom(nodes, current, path, actions) ==
    IF current = 0 THEN [path |-> path, actions |-> actions]
    ELSE ReconstructFrom(nodes, nodes[current].parent,
                         <<nodes[current].altitude>> \o path,
                         IF nodes[current].parent # 0
                             THEN <<nodes[current].action>> \o actions
                             ELSE actions)

\* reconstructPath with the root's action unshifted as well
ReconstructPathWithRoot(nodes, goalNode) ==
    LET r == ReconstructFrom(nodes, goalNode, <<>>, <<>>)
    IN  [path |-> r.path, actions |-> <<0>> \o r.actions]

\* reconstructPath(goalNode)
ReconstructPath(nodes, goalNode) == ReconstructFrom(nodes, goalNode, <<>>, <<>>)

\* the cost of one action: action !== 0 ? 1 : 0
StepCost(action) == IF action # 0 THEN 1 ELSE 0

\* the result record of findPath
Result(path, actions, totalCost, nodesExplored) ==
    [path |-> path, actions |-> actions, totalCost |-> totalCost,
     nodesExplored |-> nodesExplored]
NoResult == Result(<<>>, <<>>, 0, 0)

\* the locals of findPath before the loop
SearchStart(startAltitude) ==
    [pc |-> "loop", start |-> startAltitude,
     nodes |-> <<Node(startAltitude, 0, Heuristic(startAltitude), 0, 0)>>,
     openSet |-> <<1>>, closedSet |-> {}, nodesExplored |-> 0,
     current |-> 0, result |-> NoResult]
SearchIdle ==
    [pc |-> "idle", start |-> 0, nodes |-> <<>>, openSet |-> <<>>, closedSet |-> {},
     nodesExplored |-> 0, current |-> 0, result |-> NoResult]

\* one pass of the loop over POSSIBLE_ACTIONS for the node current, on the
\* locals s
Explore(s, current, action) ==
    LET cur == s.nodes[current]
        newAltitude == cur.altitude + action
    IN  IF newAltitude < MIN_ALTITUDE \/ newAltitude > MAX_ALTITUDE THEN s
        ELSE IF newAltitude \in s.closedSet THEN s
        ELSE
            LET gCost == cur.gCost + StepCost(action)
                hCost == Heuristic(newAltitude)
                matches == {i \in 1..Len(s.openSet) :
                                s.nodes[s.openSet[i]].altitude = newAltitude}
                exists == matches # {}
                index == CHOOSE i \in matches : \A j \in matches : i <= j
                better == ~exists \/ gCost < s.nodes[s.openSet[index]].gCost
                neighbor == Len(s.nodes) + 1
                created == Append(s.nodes, Node(newAltitude, gCost, hCost, current, action))
            IN  IF ~better THEN s
                ELSE IF exists
                    THEN [s EXCEPT !.nodes = created,
                                   !.openSet = [s.openSet EXCEPT ![index] = neighbor]]
                    ELSE [s EXCEPT !.nodes = created,
                                   !.openSet = Append(s.openSet, neighbor)]

RECURSIVE ExploreAll(_, _, _)
ExploreAll(s, current, k) ==
    IF k > Len(POSSIBLE_ACTIONS) THEN s
    ELSE ExploreAll(Explore(s, current, POSSIBLE_ACTIONS[k]), current, k + 1)

\* one iteration of the while loop that counts a node only after the goal
\* test has failed
SearchIterateGoalUncounted(s) ==
    LET explored == s.nodesExplored + 1
        current == FindLowestFCost(s.nodes, s.openSet)
        rest == RemoveAt(s.openSet, IndexOf(s.openSet, current))
    IN  IF IsGoal(s.nodes[current].altitude)
        THEN LET r == ReconstructPath(s.nodes, current)
             IN  [s EXCEPT !.pc = "done",
                           !.openSet = rest, !.current = current,
                           !.result = Result(r.path, r.actions,
                                             s.nodes[current].gCost, s.nodesExplored)]
        ELSE ExploreAll([s EXCEPT !.nodesExplored = explored, !.openSet = rest,
                                  !.current = current,
                                  !.closedSet = @ \cup {s.nodes[current].altitude}],
                        current, 1)

\* one iteration of the while loop without closedSet.add
SearchIterateNoClose(s) ==
    LET explored == s.nodesExplored + 1
        current == FindLowestFCost(s.nodes, s.openSet)
        rest == RemoveAt(s.openSet, IndexOf(s.openSet, current))
    IN  IF IsGoal(s.nodes[current].altitude)
        THEN LET r == ReconstructPath(s.nodes, current)
             IN  [s EXCEPT !.pc = "done", !.nodesExplored = explored,
                           !.openSet = rest, !.current = current,
                           !.result = Result(r.path, r.actions,
                                             s.nodes[current].gCost, explored)]
        ELSE ExploreAll([s EXCEPT !.nodesExplored = explored, !.openSet = rest,
                                  !.current = current],
                        current, 1)

\* one iteration of the while loop (openSet is not empty)
SearchIterate(s) ==
    LET explored == s.nodesExplored + 1
        current == FindLowestFCost(s.nodes, s.openSet)
        rest == RemoveAt(s.openSet, IndexOf(s.openSet, current))
    IN  IF IsGoal(s.nodes[current].altitude)
        THEN LET r == ReconstructPath(s.nodes, current)
             IN  [s EXCEPT !.pc = "done", !.nodesExplored = explored,
                           !.openSet = rest, !.current = current,
                           !.result = Result(r.path, r.actions,
                                             s.nodes[current].gCost, explored)]
        ELSE ExploreAll([s EXCEPT !.nodesExplored = explored, !.openSet = rest,
                                  !.current = current,
                                  !.closedSet = @ \cup {s.nodes[current].altitude}],
                        current, 1)

\* the return after the loop with a cost of 0 and no path
SearchExhaustedZeroCost(s) ==
    [s EXCEPT !.pc = "done", !.result = Result(<<>>, <<>>, 0, s.nodesExplored)]

\* the loop ends with an empty openSet: no path found
SearchExhausted(s) ==
    [s EXCEPT !.pc = "done",
              !.result = Result(<<s.start>>, <<>>, Infinity, s.nodesExplored)]

SearchStep(s) == IF Len(s.openSet) > 0 THEN SearchIterate(s) ELSE SearchExhausted(s)

RECURSIVE RunSearch(_)
RunSearch(s) == IF s.pc = "done" THEN s ELSE RunSearch(SearchStep(s))

\* findPath(startAltitude), run to its return
FindPath(startAltitude) == RunSearch(SearchStart(startAltitude)).result

\* getNextAction that always holds the altitude
GetNextActionHold(currentAltitude) == 0

\* getNextAction testing actions.length > 1
GetNextActionOffByOne(currentAltitude) ==
    LET result == FindPath(currentAltitude)
    IN  IF Len(result.actions) > 1 THEN result.actions[1] ELSE 0

\* getNextAction(currentAltitude)
GetNextAction(currentAltitude) ==
    LET result == FindPath(currentAltitude)
    IN  IF Len(result.actions) > 0 THEN result.actions[1] ELSE 0

\* a call of findPath that finds the closed set of the call before it, as it
\* would were closedSet a field of the planner
FindPathCallStale(a) ==
    /\ search.pc \in {"idle", "done"}
    /\ Len(planLog) < MaxPlans
    /\ search' = [SearchStart(a) EXCEPT !.closedSet = search.closedSet]
    /\ UNCHANGED planLog
    /\ trace' = <<[op |-> "aStarPlanner.findPath", arg |-> a]>>

\* a call of findPath, taken one loop iteration at a time
FindPathCall(a) ==
    /\ search.pc \in {"idle", "done"}
    /\ Len(planLog) < MaxPlans
    /\ search' = SearchStart(a)
    /\ UNCHANGED planLog
    /\ trace' = <<[op |-> "aStarPlanner.findPath", arg |-> a]>>

FindPathIterate ==
    /\ search.pc = "loop"
    /\ Len(search.openSet) > 0
    /\ search' = SearchIterate(search)
    /\ planLog' = IF search'.pc = "done"
                    THEN Append(planLog, [start |-> search.start, result |-> search'.result])
                    ELSE planLog
    /\ UNCHANGED trace

FindPathExhausted ==
    /\ search.pc = "loop"
    /\ Len(search.openSet) = 0
    /\ search' = SearchExhausted(search)
    /\ planLog' = Append(planLog, [start |-> search.start, result |-> search'.result])
    /\ UNCHANGED trace

GetNextActionCall(a) ==
    /\ search.pc \in {"idle", "done"}
    /\ UNCHANGED <<search, planLog>>
    /\ trace' = <<[op |-> "aStarPlanner.getNextAction", arg |-> a,
                   ret |-> GetNextAction(a)]>>

----------------------------------------------------------------------------
(* DroneSimulation: runStep, handleReset, handleAgentToggle and the         *)
(* Start / Pause button.  The explanation strings and the chart data are    *)
(* left out; the calls that build them are in the trace.                    *)

\* getName() of the two agents, and the name logged for the planner
AgentName(agent) == IF agent = "reflex" THEN "Reflex Agent" ELSE "Model-Based Agent"

\* whether runStep consults the planner, given environment.isCritical()
UsePlannerNever(critical) == FALSE
UsePlanner(critical) == critical

\* the window the ModelBasedAgent decides on in a tick that drew wind:
\* updateModel(wind) is called before decideAction
DecisionWindow(window, wind) == WindowPush(window, wind)

\* runStep as a function of the state it reads and the wind drawn: the new
\* values of what it writes, and the calls it makes, in order
Tick(a0, hist, agent, window, wind, stepNo) ==
    LET a1 == AltitudeAfterWind(a0, wind)
        hist1 == RecordState(hist, a1, wind)
        critical == IsCritical(a1)
        usingAStar == UsePlanner(critical)
        modelActive == ~usingAStar /\ agent = "model-based"
        reflexActive == ~usingAStar /\ agent = "reflex"
        window1 == IF modelActive THEN WindowPush(window, wind) ELSE window
        action == IF usingAStar THEN GetNextAction(a1)
                  ELSE IF agent = "model-based"
                      THEN ModelAction(a1, DecisionWindow(window, wind))
                      ELSE ReflexAction(a1)
        a2 == ApplyActionResult(a1, action)
        decisionCalls ==
            IF usingAStar
            THEN <<[op |-> "aStarPlanner.getNextAction", arg |-> a1, ret |-> action],
                   [op |-> "aStarPlanner.explainPath", arg |-> a1]>>
            ELSE IF agent = "model-based"
            THEN <<[op |-> "modelBasedAgent.updateModel", arg |-> wind],
                   [op |-> "modelBasedAgent.decideAction", arg |-> a1, ret |-> action],
                   [op |-> "modelBasedAgent.explainAction", arg |-> a1]>>
            ELSE <<[op |-> "reflexAgent.decideAction", arg |-> a1, ret |-> action],
                   [op |-> "reflexAgent.explainAction", arg |-> a1]>>
    IN  [altitude |-> a2,
         history |-> HistoryAfterAction(hist1, a2),
         modelActive |-> modelActive,
         reflexActive |-> reflexActive,
         window |-> window1,
         afterWind |-> a1,
         action |-> action,
         logEntry |-> [step |-> stepNo + 1, altitude |-> a2, wind |-> wind,
                       action |-> action,
                       agent |-> IF usingAStar THEN "A* Planner" ELSE AgentName(agent),
                       isStable |-> IsInSafeZone(a2), usingAStar |-> usingAStar],
         calls |-> <<[op |-> "runStep", agent |-> agent],
                     [op |-> "environment.applyWind", ret |-> wind],
                     [op |-> "environment.getAltitude", ret |-> a1],
                     [op |-> "environment.isCritical", ret |-> critical]>>
                   \o decisionCalls
                   \o <<[op |-> "environment.applyAction", arg |-> action],
                        [op |-> "environment.getAltitude", ret |-> a2],
                        [op |-> "environment.isInSafeZone", ret |-> IsInSafeZone(a2)]>>]

\* a firing of the interval timer, which is set only while isRunning
RunStep ==
    /\ isRunning
    /\ step < MaxSteps
    /\ \E wind \in GenerateWind(windIntensity) :
        LET t == Tick(altitude, history, currentAgent, windHistory, wind, step)
        IN  /\ altitude' = t.altitude
            /\ history' = t.history
            /\ windHistory' = t.window
            /\ observed' = IF t.modelActive THEN Append(observed, wind) ELSE observed
            /\ mbLog' = IF t.modelActive
                          THEN ModelRecordAction(mbLog, t.afterWind,
                                   PredictNextAltitude(t.afterWind, t.window),
                                   t.action, WindTrend(t.window))
                          ELSE mbLog
            /\ reflexLog' = IF t.reflexActive
                              THEN ReflexRecordAction(reflexLog, t.afterWind, t.action)
                              ELSE reflexLog
            /\ logs' = Append(logs, t.logEntry)
            /\ trace' = t.calls
    /\ windCalls' = windCalls + 1
    /\ step' = step + 1
    /\ UNCHANGED <<windIntensity, currentAgent, isRunning, plannerVars>>

\* the Start / Pause button: setIsRunning(!isRunning)
ToggleRunning ==
    /\ isRunning' = ~isRunning
    /\ UNCHANGED <<envVars, reflexVars, mbVars, plannerVars, currentAgent, step, logs, trace>>

HandleReset ==
    /\ isRunning' = FALSE
    /\ altitude' = ClampAltitude(5)
    /\ history' = ResetHistory(history, 5)
    /\ windCalls' = 0
    /\ reflexLog' = <<>>
    /\ windHistory' = <<>>
    /\ mbLog' = <<>>
    /\ observed' = <<>>
    /\ step' = 0
    /\ logs' = <<>>
    /\ trace' = <<[op |-> "handleReset"],
                  [op |-> "environment.reset", arg |-> 5],
                  [op |-> "reflexAgent.reset"],
                  [op |-> "modelBasedAgent.reset"]>>
    /\ UNCHANGED <<windIntensity, currentAgent, plannerVars>>

HandleAgentToggle ==
    /\ isRunning' = FALSE
    /\ currentAgent' = IF currentAgent = "reflex" THEN "model-based" ELSE "reflex"
    /\ UNCHANGED <<envVars, reflexVars, mbVars, plannerVars, step, logs, trace>>

----------------------------------------------------------------------------
(* Initial values of the other components *)

ReflexInit == reflexLog = <<>>
MBInit == windHistory = <<>> /\ mbLog = <<>> /\ observed = <<>>
PlannerInit == search = SearchIdle /\ planLog = <<>>
DriverInit == currentAgent = "reflex" /\ isRunning = FALSE /\ step = 0 /\ logs = <<>>

----------------------------------------------------------------------------
(* The environment alone, called by an arbitrary client *)

InitEnv ==
    /\ \E x \in AltitudeInputs :
        /\ EnvInit(x)
        /\ trace = <<[op |-> "new DroneEnvironment", arg |-> x]>>
    /\ ReflexInit /\ MBInit /\ PlannerInit /\ DriverInit

NextEnv ==
    \/ ApplyWind /\ UNCHANGED <<reflexVars, mbVars, plannerVars, driverVars>>
    \/ \E k \in Adjustments :
        ApplyAction(k) /\ UNCHANGED <<reflexVars, mbVars, plannerVars, driverVars>>
    \/ \E x \in ResetInputs :
        Reset(x) /\ UNCHANGED <<reflexVars, mbVars, plannerVars, driverVars>>
    \/ IsInSafeZoneQuery /\ UNCHANGED <<reflexVars, mbVars, plannerVars, driverVars>>
    \/ IsCriticalQuery /\ UNCHANGED <<reflexVars, mbVars, plannerVars, driverVars>>
    \/ \E i \in IntensityInputs :
        SetWindIntensity(i) /\ UNCHANGED <<reflexVars, mbVars, plannerVars, driverVars>>

SpecEnv == InitEnv /\ [][NextEnv]_vars

\* the operation that produced the current state
LastOp == trace[1].op
\* clamp(x, 0, 10) as the claims state it
Clamp0to10(x) == IF x < 0 THEN 0 ELSE IF x > 10 THEN 10 ELSE x
LastRecord(hist) == hist[Len(hist)]

\* C1: after construction with any integer and after any sequence of
\* applyWind, applyAction(k) and reset(x), the altitude is an integer in [0,10].
C1_AltitudeBound == altitude \in 0..10

\* the upper clamp has acted: constructed at 10, then a disturbance of +1
C1_Witness ==
    /\ LastOp = "environment.applyWind" /\ trace[1].ret = 1
    /\ Len(history) = 2 /\ history[1].altitude = 10 /\ history[2].altitude = 10
    /\ altitude = 10

\* C2: isCritical() is true iff altitude < 3 or altitude > 7, isInSafeZone()
\* is true iff 4 <= altitude <= 6, and the two are never true together.
C2_ZoneClassification ==
    /\ LastOp = "environment.isCritical" => (trace[1].ret <=> altitude \in {0, 1, 2, 8, 9, 10})
    /\ LastOp = "environment.isInSafeZone" => (trace[1].ret <=> altitude \in {4, 5, 6})
    /\ ~(IsCritical(altitude) /\ IsInSafeZone(altitude))
    /\ altitude \in {3, 7} => ~IsCritical(altitude) /\ ~IsInSafeZone(altitude)

\* isCritical() answered false at altitude 3, which is not safe either
C2_Witness ==
    /\ LastOp = "environment.isCritical" /\ trace[1].ret = FALSE
    /\ altitude = 3 /\ ~IsInSafeZone(altitude)

\* C8: applyWind with drawn disturbance w at altitude a returns w, sets the
\* altitude to clamp(a+w, 0, 10) and appends exactly one record holding the
\* new altitude, w and isStable = (new altitude in [4,6]); the history length
\* is always 1 plus the number of applyWind calls since construction or reset.
C8_ApplyWindPost ==
    /\ Len(history) = 1 + windCalls
    /\ [][/\ Len(history') = 1 + windCalls'
          /\ trace'[1].op = "environment.applyWind" =>
                LET w == trace'[1].ret
                    new == Clamp0to10(altitude + w)
                IN  /\ w \in {-1, 0, 1}
                    /\ altitude' = new
                    /\ windCalls' = windCalls + 1
                    /\ history' = Append(history, [altitude |-> new, wind |-> w,
                                                   isStable |-> new \in 4..6])]_vars

\* a disturbance of -1 recorded at the floor, with an unstable record
C8_Witness ==
    /\ LastOp = "environment.applyWind" /\ trace[1].ret = -1
    /\ altitude = 0 /\ windCalls = 1
    /\ LastRecord(history) = [altitude |-> 0, wind |-> -1, isStable |-> FALSE]

\* C9: applyAction leaves the history unchanged; applyWind keeps the previous
\* history as a prefix of the new one; only reset shortens the history.
C9_HistoryFrame ==
    [][/\ trace'[1].op = "environment.applyAction" => history' = history
       /\ trace'[1].op = "environment.applyWind" =>
            /\ Len(history') = Len(history) + 1
            /\ SubSeq(history', 1, Len(history)) = history
       /\ Len(history') < Len(history) => trace'[1].op = "environment.reset"
       /\ trace'[1].op # "environment.reset" => Len(history') >= Len(history)]_vars

\* after a tick's action the last record holds the post-disturbance altitude,
\* which differs from the current altitude
C9_Witness ==
    /\ LastOp = "environment.applyAction" /\ trace[1].arg = 1
    /\ Len(history) = 2 /\ LastRecord(history).wind = -1
    /\ LastRecord(history).altitude = 3 /\ altitude = 4

\* C10: after reset(x) or new DroneEnvironment(x), for any integer x, the
\* altitude is clamp(x, 0, 10) and the history holds exactly one record, with
\* that altitude and disturbance 0.
C10_ResetPost ==
    LastOp \in {"environment.reset", "new DroneEnvironment"} =>
        /\ altitude = Clamp0to10(trace[1].arg)
        /\ Len(history) = 1
        /\ history[1].altitude = altitude
        /\ history[1].wind = 0
        /\ history[1].isStable = (altitude \in 4..6)
        /\ windCalls = 0

\* reset(11) from an environment that is not at the ceiling
C10_Witness ==
    /\ LastOp = "environment.reset" /\ trace[1].arg = 11
    /\ altitude = 10 /\ Len(history) = 1

----------------------------------------------------------------------------
(* The ReflexAgent alone, called by an arbitrary client *)

InitReflex ==
    /\ EnvInit(5)
    /\ ReflexInit /\ MBInit /\ PlannerInit /\ DriverInit
    /\ trace = <<[op |-> "new ReflexAgent"]>>

NextReflex ==
    \/ \E a \in AltitudeInputs :
        ReflexDecide(a) /\ UNCHANGED <<envVars, mbVars, plannerVars, driverVars>>
    \/ ReflexReset /\ UNCHANGED <<envVars, mbVars, plannerVars, driverVars>>

SpecReflex == InitReflex /\ [][NextReflex]_vars

\* C6: after any sequence of earlier decideAction / reset calls,
\* ReflexAgent.decideAction(a) returns +1 if a < 4, -1 if a > 6 and 0
\* otherwise: decide(3) = +1, decide(7) = -1, decide(5) = 0 whatever the log.
C6_ReflexPure ==
    LastOp = "reflexAgent.decideAction" =>
        LET a == trace[1].arg
            r == trace[1].ret
        IN  /\ a \in {4, 5, 6} => r = 0
            /\ a <= 3 => r = 1
            /\ a >= 7 => r = -1
            /\ LastRecord(reflexLog) = [altitude |-> a, action |-> r]

\* decide(3) = +1 right after decide(7) = -1 was logged
C6_Witness ==
    /\ LastOp = "reflexAgent.decideAction" /\ trace[1].arg = 3 /\ trace[1].ret = 1
    /\ Len(reflexLog) = 2 /\ reflexLog[1] = [altitude |-> 7, action |-> -1]

----------------------------------------------------------------------------
(* The ModelBasedAgent alone, called by an arbitrary client *)

InitModel ==
    /\ EnvInit(5)
    /\ ReflexInit /\ MBInit /\ PlannerInit /\ DriverInit
    /\ trace = <<[op |-> "new ModelBasedAgent"]>>

NextModel ==
    \/ \E w \in Winds :
        /\ Len(observed) < MaxUpdates
        /\ UpdateModel(w)
        /\ observed' = Append(observed, w)
        /\ UNCHANGED <<envVars, reflexVars, plannerVars, driverVars>>
    \/ \E a \in MIN_ALTITUDE..MAX_ALTITUDE :
        /\ Len(mbLog) < MaxModelLog
        /\ ModelDecide(a)
        /\ UNCHANGED <<observed, envVars, reflexVars, plannerVars, driverVars>>
    \/ /\ ModelReset
       /\ observed' = <<>>
       /\ UNCHANGED <<envVars, reflexVars, plannerVars, driverVars>>

SpecModel == InitModel /\ [][NextModel]_vars

\* the decision of C5 for altitude a when the window has n values of sum s:
\* predicted = a + s/n (a when n = 0)
C5_Expected(a, s, n) ==
    LET m == IF n = 0 THEN 1 ELSE n
        p == a * m + s               \* predicted * m
    IN  IF p < 4 * m THEN 1
        ELSE IF p > 6 * m THEN -1
        ELSE IF a < 4 THEN 1
        ELSE IF a > 6 THEN -1
        ELSE 0

\* C5: decideAction(altitude) returns +1 if altitude + mean(window) < 4, else
\* -1 if it is > 6, else +1 if altitude < 4, else -1 if altitude > 6, else 0;
\* a forecast below 4 gives +1 also for an altitude inside [4,6] (window
\* <<-2>>, altitude 5), and an altitude outside [4,6] never gives 0.
C5_PredictivePrecedence ==
    /\ ModelAction(5, <<-2>>) = 1
    /\ LastOp = "modelBasedAgent.decideAction" =>
        LET a == trace[1].arg
            r == trace[1].ret
        IN  /\ r = C5_Expected(a, SumSeq(windHistory), Len(windHistory))
            /\ a \notin 4..6 => r # 0
            /\ LastRecord(mbLog).action = r

\* the forecast 4 - 1/2 overrides the safe present altitude 4
C5_Witness ==
    /\ LastOp = "modelBasedAgent.decideAction"
    /\ trace[1].arg = 4 /\ trace[1].ret = 1
    /\ windHistory = <<-1, 0>>

\* C7: with an empty wind window (fresh or just reset) the predictive policy
\* returns, for every altitude in [0,10], the action of the reactive policy.
C7_EmptyWindowIsReflex ==
    (LastOp = "modelBasedAgent.decideAction" /\ windHistory = <<>>) =>
        trace[1].ret = ReflexAction(trace[1].arg)

\* a decision of -1 at altitude 7 with an empty window
C7_Witness ==
    /\ LastOp = "modelBasedAgent.decideAction" /\ windHistory = <<>>
    /\ trace[1].arg = 7 /\ trace[1].ret = -1

----------------------------------------------------------------------------
(* The AStarPlanner alone, called by an arbitrary client *)

InitPlanner ==
    /\ EnvInit(5)
    /\ ReflexInit /\ MBInit /\ PlannerInit /\ DriverInit
    /\ trace = <<[op |-> "new AStarPlanner"]>>

NextPlanner ==
    \/ \E a \in AltitudeInputs :
        FindPathCall(a) /\ UNCHANGED <<envVars, reflexVars, mbVars, driverVars>>
    \/ FindPathIterate /\ UNCHANGED <<envVars, reflexVars, mbVars, driverVars>>
    \/ FindPathExhausted /\ UNCHANGED <<envVars, reflexVars, mbVars, driverVars>>
    \/ \E a \in AltitudeInputs :
        GetNextActionCall(a) /\ UNCHANGED <<envVars, reflexVars, mbVars, driverVars>>

SpecPlanner == InitPlanner /\ [][NextPlanner]_vars

\* the sequence of n copies of x
Copies(n, x) == [i \in 1..n |-> x]

\* C4: for every start altitude a in [0,10], findPath(a) returns a path whose
\* last altitude is in [4,6], a totalCost of 4-a if a<4, a-6 if a>6 and 0
\* otherwise, and actions that are all +1 when a<4 and all -1 when a>6;
\* findPath(0) costs 4 with actions [+1,+1,+1,+1], findPath(10) costs 4 with
\* actions [-1,-1,-1,-1], and findPath(5) is path [5], actions [], cost 0.
C4_PlannerOptimal ==
    (search.pc = "done" /\ search.start \in 0..10) =>
        LET a == search.start
            r == search.result
            cost == IF a < 4 THEN 4 - a ELSE IF a > 6 THEN a - 6 ELSE 0
        IN  /\ Len(r.path) >= 1
            /\ r.path[Len(r.path)] \in 4..6
            /\ r.totalCost = cost
            /\ a < 4 => r.actions = Copies(cost, 1)
            /\ a > 6 => r.actions = Copies(cost, -1)
            /\ a = 0 => r.totalCost = 4 /\ r.actions = <<1, 1, 1, 1>>
            /\ a = 10 => r.totalCost = 4 /\ r.actions = <<-1, -1, -1, -1>>
            /\ a = 5 => r.path = <<5>> /\ r.actions = <<>> /\ r.totalCost = 0

\* findPath(0) has returned the four climbs
C4_Witness ==
    /\ search.pc = "done" /\ search.start = 0
    /\ search.result.path = <<0, 1, 2, 3, 4>>
    /\ search.result.actions = <<1, 1, 1, 1>>
    /\ search.result.totalCost = 4

----------------------------------------------------------------------------
(* The simulation as the component runs it: the environment starts at 5 *)

Init ==
    /\ EnvInit(5)
    /\ ReflexInit /\ MBInit /\ PlannerInit /\ DriverInit
    /\ trace = <<[op |-> "DroneSimulation"]>>

Next ==
    \/ RunStep
    \/ ToggleRunning
    \/ HandleReset
    \/ HandleAgentToggle

Spec == Init /\ [][Next]_vars

(* The same orchestration on an environment constructed at any altitude *)

InitTick ==
    /\ \E x \in MIN_ALTITUDE..MAX_ALTITUDE : EnvInit(x)
    /\ ReflexInit /\ MBInit /\ PlannerInit /\ DriverInit
    /\ trace = <<[op |-> "DroneSimulation"]>>

SpecTick == InitTick /\ [][Next]_vars

\* the positions in the trace of the calls of op
CallsOf(op) == {i \in 1..Len(trace) : trace[i].op = op}
DecideOps == {"reflexAgent.decideAction", "modelBasedAgent.decideAction"}

\* C3: in every tick the disturbance is applied first; iff the environment
\* is critical at the post-disturbance altitude the action is the planner's
\* getNextAction and no policy decides; otherwise the active policy decides
\* on the post-disturbance altitude, the predictive one after
\* updateModel(this tick's disturbance); the action is applied exactly once,
\* after the decision.
C3_TickOrder ==
    LastOp = "runStep" =>
        LET w == trace[2].ret
            a1 == trace[3].ret
            critical == trace[4].ret
            k == trace[5 + (IF trace[5].op = "modelBasedAgent.updateModel" THEN 1 ELSE 0)].ret
            applied == CallsOf("environment.applyAction")
        IN  /\ trace[2].op = "environment.applyWind"
            /\ CallsOf("environment.applyWind") = {2}
            /\ LastRecord(history) = [altitude |-> a1, wind |-> w,
                                      isStable |-> a1 \in 4..6]
            /\ trace[4].op = "environment.isCritical"
            /\ critical <=> (a1 < 3 \/ a1 > 7)
            /\ critical =>
                /\ trace[5] = [op |-> "aStarPlanner.getNextAction", arg |-> a1, ret |-> k]
                /\ \A i \in 1..Len(trace) : trace[i].op \notin DecideOps
                /\ k = IF a1 < 3 THEN 1 ELSE -1
            /\ (~critical /\ trace[1].agent = "reflex") =>
                /\ CallsOf("aStarPlanner.getNextAction") = {}
                /\ trace[5] = [op |-> "reflexAgent.decideAction", arg |-> a1, ret |-> k]
                /\ CallsOf("modelBasedAgent.decideAction") = {}
                /\ k = IF a1 < 4 THEN 1 ELSE IF a1 > 6 THEN -1 ELSE 0
            /\ (~critical /\ trace[1].agent = "model-based") =>
                /\ CallsOf("aStarPlanner.getNextAction") = {}
                /\ trace[5] = [op |-> "modelBasedAgent.updateModel", arg |-> w]
                /\ trace[6] = [op |-> "modelBasedAgent.decideAction", arg |-> a1, ret |-> k]
                /\ CallsOf("reflexAgent.decideAction") = {}
                /\ windHistory # <<>> /\ windHistory[Len(windHistory)] = w
                /\ k = C5_Expected(a1, SumSeq(windHistory), Len(windHistory))
            /\ Cardinality(applied) = 1
            /\ \A i \in applied :
                /\ trace[i].arg = k
                /\ \A j \in 1..Len(trace) :
                    trace[j].op \in DecideOps \cup {"aStarPlanner.getNextAction"} => j < i
            /\ altitude = Clamp0to10(a1 + k)
            /\ LastRecord(logs).usingAStar = critical
            /\ LastRecord(logs).action = k

\* a critical tick: the disturbance took the drone to 2, the planner answered
\* +1 and no policy decided
C3_Witness ==
    /\ LastOp = "runStep"
    /\ trace[3].ret = 2 /\ trace[4].ret = TRUE
    /\ trace[5].op = "aStarPlanner.getNextAction" /\ trace[5].ret = 1
    /\ altitude = 3

----------------------------------------------------------------------------
(* The wind window of the ModelBasedAgent, fed by an arbitrary client *)

InitWindow ==
    /\ EnvInit(5)
    /\ ReflexInit /\ MBInit /\ PlannerInit /\ DriverInit
    /\ trace = <<[op |-> "new ModelBasedAgent"]>>

NextWindow ==
    \/ \E w \in Winds :
        /\ Len(observed) < MaxObserved
        /\ UpdateModel(w)
        /\ observed' = Append(observed, w)
        /\ UNCHANGED <<envVars, reflexVars, plannerVars, driverVars>>
    \/ /\ ModelReset
       /\ observed' = <<>>
       /\ UNCHANGED <<envVars, reflexVars, plannerVars, driverVars>>

SpecWindow == InitWindow /\ [][NextWindow]_vars

\* the last k values of s
LastOf(s, k) == SubSeq(s, Len(s) - k + 1, Len(s))

\* C11: after n updateModel calls since construction or the last reset the
\* window has length min(n, 5) and holds the last min(n, 5) observed values
\* in the order they were observed (the oldest value is the one evicted).
C11_WindowFifo ==
    LET n == Len(observed)
        k == IF n < 5 THEN n ELSE 5
    IN  /\ Len(windHistory) = k
        /\ windHistory = LastOf(observed, k)

\* seven observations: the two oldest have been evicted
C11_Witness ==
    /\ observed = <<1, 1, 0, -1, 0, 1, -1>>
    /\ windHistory = <<0, -1, 0, 1, -1>>
    /\ LastOp = "modelBasedAgent.updateModel"

----------------------------------------------------------------------------
(* The ModelBasedAgent with its queries; explainAction is called as the     *)
(* simulation calls it, with the altitude and the action of the decision    *)
(* just made.                                                               *)

InitBelief ==
    /\ EnvInit(5)
    /\ ReflexInit /\ MBInit /\ PlannerInit /\ DriverInit
    /\ trace = <<[op |-> "new ModelBasedAgent"]>>

NextBelief ==
    \/ \E w \in Winds :
        /\ Len(observed) < MaxBeliefUpdates
        /\ UpdateModel(w)
        /\ observed' = Append(observed, w)
        /\ UNCHANGED <<envVars, reflexVars, plannerVars, driverVars>>
    \/ \E a \in MIN_ALTITUDE..MAX_ALTITUDE :
        /\ Len(mbLog) < MaxModelLog + 1
        /\ ModelDecide(a)
        /\ UNCHANGED <<observed, envVars, reflexVars, plannerVars, driverVars>>
    \/ /\ LastOp = "modelBasedAgent.decideAction"
       /\ ModelExplain(trace[1].arg, trace[1].ret)
       /\ UNCHANGED <<observed, envVars, reflexVars, plannerVars, driverVars>>
    \/ /\ ModelGetCurrentWindTrend
       /\ UNCHANGED <<observed, envVars, reflexVars, plannerVars, driverVars>>
    \/ /\ ModelReset
       /\ observed' = <<>>
       /\ UNCHANGED <<envVars, reflexVars, plannerVars, driverVars>>

SpecBelief == InitBelief /\ [][NextBelief]_vars

ModelQueries == {"modelBasedAgent.decideAction", "modelBasedAgent.explainAction",
                 "modelBasedAgent.getCurrentWindTrend"}

\* C12: decideAction, explainAction and getCurrentWindTrend leave the wind
\* window unchanged (it changes only through updateModel and reset), so two
\* consecutive decideAction calls with the same altitude return the same
\* action; reset leaves the window empty.
C12_BeliefFrame ==
    [][/\ trace'[1].op \in ModelQueries => windHistory' = windHistory
       /\ windHistory' # windHistory =>
            trace'[1].op \in {"modelBasedAgent.updateModel", "modelBasedAgent.reset"}
       /\ (/\ trace[1].op = "modelBasedAgent.decideAction"
           /\ trace'[1].op = "modelBasedAgent.decideAction"
           /\ trace'[1].arg = trace[1].arg) => trace'[1].ret = trace[1].ret
       /\ trace'[1].op = "modelBasedAgent.reset" => windHistory' = <<>>]_vars

\* decideAction(4) twice in a row on the window <<-1>>: +1 both times
C12_Witness ==
    /\ LastOp = "modelBasedAgent.decideAction" /\ trace[1].arg = 4 /\ trace[1].ret = 1
    /\ windHistory = <<-1>>
    /\ Len(mbLog) = 2
    /\ mbLog[1].altitude = 4 /\ mbLog[1].action = 1 /\ mbLog[1].windTrend = Rat(-1, 1)
    /\ mbLog[2] = mbLog[1]

----------------------------------------------------------------------------
(* Claims about the plans findPath returns, under SpecPlanner.              *)

NonZeroCount(actions) == Cardinality({i \in 1..Len(actions) : actions[i] # 0})

\* C13: for a start altitude in [0, 10] the returned plan is well formed:
\* path[0] is the start, actions has one entry fewer than path, each path
\* entry is its predecessor plus the action taken, every altitude of the
\* path is in [0, 10], every action is -1, 0 or +1, and totalCost is the
\* number of non-zero actions.
C13_PlanWellFormed ==
    (search.pc = "done" /\ search.start \in MIN_ALTITUDE..MAX_ALTITUDE) =>
        LET r == search.result
        IN  /\ Len(r.path) >= 1
            /\ r.path[1] = search.start
            /\ Len(r.actions) = Len(r.path) - 1
            /\ \A i \in 1..Len(r.actions) :
                   /\ r.actions[i] \in {-1, 0, 1}
                   /\ r.path[i + 1] = r.path[i] + r.actions[i]
            /\ \A i \in 1..Len(r.path) : r.path[i] \in 0..10
            /\ r.totalCost = NonZeroCount(r.actions)

C13_Witness ==
    /\ search.pc = "done"
    /\ search.start = 10
    /\ search.result.path = <<10, 9, 8, 7, 6>>
    /\ search.result.actions = <<-1, -1, -1, -1>>
    /\ search.result.totalCost = 4

\* C14: the planner keeps no state between calls: two findPath calls with
\* the same start altitude, whatever planner calls were made before or
\* between them, return the same path, actions, totalCost and nodesExplored
\* (the result a call made on a new planner returns).
C14_FindPathIdempotent ==
    \A i \in 1..Len(planLog) :
        /\ planLog[i].result = FindPath(planLog[i].start)
        /\ \A j \in 1..Len(planLog) :
               planLog[i].start = planLog[j].start =>
                   /\ planLog[i].result.path = planLog[j].result.path
                   /\ planLog[i].result.actions = planLog[j].result.actions
                   /\ planLog[i].result.totalCost = planLog[j].result.totalCost
                   /\ planLog[i].result.nodesExplored = planLog[j].result.nodesExplored

C14_Witness ==
    /\ Len(planLog) = 2
    /\ planLog[1].start = 0
    /\ planLog[2].start = 0
    /\ planLog[2].result = planLog[1].result
    /\ planLog[2].result.path = <<0, 1, 2, 3, 4>>
    /\ planLog[2].result.nodesExplored = 5
    /\ LastOp = "aStarPlanner.getNextAction"

\* C15: getNextAction(a) returns the first action of the plan findPath(a)
\* returns when that plan has an action, and 0 when it has none (a is in the
\* safe band, or no path exists): +1 from -1..3, -1 from 7..11, 0 elsewhere,
\* and in agreement with every logged findPath result for a.
C15_NextActionIsFirstStep ==
    LastOp = "aStarPlanner.getNextAction" =>
        LET a == trace[1].arg
            ret == trace[1].ret
        IN  /\ ret = IF a \in (-1)..3 THEN 1 ELSE IF a \in 7..11 THEN -1 ELSE 0
            /\ \A i \in 1..Len(planLog) :
                   planLog[i].start = a =>
                       ret = IF Len(planLog[i].result.actions) > 0
                                 THEN planLog[i].result.actions[1]
                                 ELSE 0

C15_Witness ==
    /\ LastOp = "aStarPlanner.getNextAction"
    /\ trace[1].arg = 3
    /\ trace[1].ret = 1
    /\ Len(planLog) = 2
    /\ planLog[1].start = 3
    /\ planLog[1].result.actions = <<1>>
    /\ planLog[2].start = 5
    /\ planLog[2].result.actions = <<>>

\* the frontier is empty and the goal was not reached
Exhausted == search.pc = "loop" /\ search.openSet = <<>>

\* C16: the frontier empties without a goal node only for a start altitude
\* with no in-bounds route (start <= -2 or start >= 12); findPath then
\* returns path = [start], no actions, totalCost = Infinity and
\* nodesExplored = the number of expansions made, and getNextAction returns
\* 0 for such a start.
C16_ExhaustionSentinel ==
    /\ Exhausted => (search.start <= -2 \/ search.start >= 12)
    /\ search.pc = "done" =>
           IF search.start <= -2 \/ search.start >= 12
               THEN /\ search.result.path = <<search.start>>
                    /\ search.result.actions = <<>>
                    /\ search.result.totalCost = Infinity
                    /\ search.result.nodesExplored = Cardinality(search.closedSet)
                    /\ search.result.nodesExplored = 1
               ELSE /\ search.result.totalCost < Infinity
                    /\ IsGoal(search.nodes[search.current].altitude)
    /\ (LastOp = "aStarPlanner.getNextAction"
            /\ (trace[1].arg <= -2 \/ trace[1].arg >= 12)) => trace[1].ret = 0

C16_Witness ==
    /\ search.pc = "done"
    /\ search.start = 12
    /\ search.result = Result(<<12>>, <<>>, Infinity, 1)
    /\ search.openSet = <<>>
    /\ search.closedSet = {12}

----------------------------------------------------------------------------
(* The component as written: the environment starts (and restarts) at 5.    *)

\* the ticks since the start or the last reset all drew the wind w, and none
\* of them was decided by the ModelBasedAgent (a log entry names the agent
\* that decided, "A* Planner" on a critical tick)
TicksDrew(n, w) ==
    /\ step = n
    /\ Len(logs) = n
    /\ \A i \in 1..n : logs[i].wind = w /\ logs[i].agent # "Model-Based Agent"

\* C17: from altitude 5 with the reflex agent selected, four ticks that each
\* draw the wind -1 (the action of a tick is applied right after its wind)
\* end with the altitude in [4, 6]; every one of them is decided by the
\* reflex agent.
C17_FourGustsRecovered ==
    TicksDrew(4, -1) =>
        /\ altitude \in SAFE_MIN..SAFE_MAX
        /\ IsInSafeZone(altitude)
        /\ \A i \in 1..4 : logs[i].agent = "Reflex Agent" /\ ~logs[i].usingAStar

C17_Witness ==
    /\ TicksDrew(4, -1)
    /\ currentAgent = "reflex"
    /\ altitude = 4
    /\ Len(reflexLog) = 4
    /\ reflexLog[1].altitude = 4 /\ reflexLog[1].action = 0
    /\ reflexLog[4].altitude = 3 /\ reflexLog[4].action = 1
    /\ LastOp = "runStep"

----------------------------------------------------------------------------
(* Claims about the search inside findPath, under SpecPlanner.              *)

\* the altitudes reached from an altitude by at most n non-zero actions, each
\* landing in [0, 10]
RECURSIVE Reachable(_, _)
Reachable(from, n) ==
    IF n = 0 THEN {from}
    ELSE LET r == Reachable(from, n - 1)
         IN  r \cup {b \in MIN_ALTITUDE..MAX_ALTITUDE : \E c \in r : b - c \in {-1, 1}}

\* the least number of non-zero actions that lead from an altitude into a set
\* of altitudes, MAX_ALTITUDE + 2 or more meaning none does
RECURSIVE MinActionsFrom(_, _, _)
MinActionsFrom(from, targets, n) ==
    IF n > MAX_ALTITUDE + 1 \/ Reachable(from, n) \cap targets # {} THEN n
    ELSE MinActionsFrom(from, targets, n + 1)
MinActions(from, targets) == MinActionsFrom(from, targets, 0)

\* C18: the heuristic stored in each node is admissible and consistent: for
\* an altitude a in [0, 10] it is 0 exactly when a is in [4, 6], it never
\* exceeds the least cost from a to the safe band, and for every action k
\* with a + k in [0, 10] it is at most cost(k) + heuristic(a + k), the cost
\* of k being 1 for a non-zero k and 0 for k = 0.
C18_HeuristicAdmissibleConsistent ==
    \A i \in 1..Len(search.nodes) :
        LET n == search.nodes[i]
            a == n.altitude
        IN  a \in 0..10 =>
                /\ n.hCost = Heuristic(a)
                /\ n.fCost = n.gCost + n.hCost
                /\ n.hCost >= 0
                /\ (n.hCost = 0) <=> (a \in 4..6)
                /\ n.hCost <= MinActions(a, 4..6)
                /\ \A k \in {-1, 0, 1} :
                       (a + k) \in 0..10 =>
                           n.hCost <= (IF k # 0 THEN 1 ELSE 0) + Heuristic(a + k)

C18_Witness ==
    /\ search.pc = "loop"
    /\ search.start = 10
    /\ Len(search.nodes) = 3
    /\ search.nodes[1].altitude = 10 /\ search.nodes[1].hCost = 4
    /\ search.nodes[2].altitude = 9 /\ search.nodes[2].hCost = 3
    /\ search.nodes[3].altitude = 8 /\ search.nodes[3].hCost = 2
    /\ MinActions(10, 4..6) = 4

\* C19: the node an iteration of findPath expands is in the open set, no node
\* of the open set has a lower fCost, and every node before it in the open
\* set has a higher fCost (of two nodes with the lowest fCost the first is
\* taken); the iteration removes it from the open set.
C19_LowestFirstExpanded ==
    [][ (search.pc = "loop" /\ search.openSet # <<>> /\ search' # search) =>
            LET open == search.openSet
                cur == search'.current
            IN  /\ \E p \in 1..Len(open) :
                       /\ open[p] = cur
                       /\ \A q \in 1..Len(open) :
                              search.nodes[open[q]].fCost >= search.nodes[cur].fCost
                       /\ \A q \in 1..(p - 1) :
                              search.nodes[open[q]].fCost > search.nodes[cur].fCost
                /\ \A q \in 1..Len(search'.openSet) : search'.openSet[q] # cur
                /\ search'.nodesExplored = search.nodesExplored + 1
                /\ FindLowestFCost(<<Node(2, 0, 2, 0, 0), Node(8, 0, 2, 0, 0),
                                      Node(9, 0, 3, 0, 0)>>, <<3, 2, 1>>) = 2
      ]_vars

C19_Witness ==
    /\ search.pc = "done"
    /\ search.start = 3
    /\ Len(search.nodes) = 3
    /\ search.nodes[2].altitude = 2 /\ search.nodes[2].fCost = 3
    /\ search.nodes[3].altitude = 4 /\ search.nodes[3].fCost = 1
    /\ search.current = 3
    /\ search.openSet = <<2>>
    /\ search.nodesExplored = 2

\* the altitudes of the nodes in the open set, in order
OpenAltitudes == [i \in 1..Len(search.openSet) |-> search.nodes[search.openSet[i]].altitude]

\* C20: within one findPath call no altitude is expanded twice (each
\* expansion that is not the goal's adds a new altitude to the closed set),
\* the open set holds no two nodes with the same altitude and no node whose
\* altitude is in the closed set, and the gCost of the node being expanded is
\* the least number of non-zero actions from the start altitude to its
\* altitude.
C20_ClosedSetSound ==
    search.pc \in {"loop", "done"} =>
        /\ \A i, j \in 1..Len(OpenAltitudes) :
               OpenAltitudes[i] = OpenAltitudes[j] => i = j
        /\ \A i \in 1..Len(OpenAltitudes) : OpenAltitudes[i] \notin search.closedSet
        /\ Cardinality(search.closedSet) =
               IF search.pc = "done" /\ search.result.totalCost < Infinity
                   THEN search.nodesExplored - 1
                   ELSE search.nodesExplored
        /\ search.current # 0 =>
               LET cur == search.nodes[search.current]
               IN  /\ cur.gCost = MinActions(search.start, {cur.altitude})
                   /\ cur.altitude \in search.closedSet <=> ~IsGoal(cur.altitude)

C20_Witness ==
    /\ search.pc = "loop"
    /\ search.start = 0
    /\ search.closedSet = {0, 1, 2}
    /\ search.nodesExplored = 3
    /\ search.nodes[search.current].altitude = 2
    /\ search.nodes[search.current].gCost = 2
    /\ OpenAltitudes = <<3>>

----------------------------------------------------------------------------
(* Termination of findPath.  The while loop runs to its return without      *)
(* yielding, so a call that has started keeps taking iterations.            *)

\* the start altitudes of the calls: every level, and beyond each end the
\* nearest altitude from which no action leads into the range (-2, 12)
SearchInputs ==
    {MIN_ALTITUDE - 2} \cup (MIN_ALTITUDE..MAX_ALTITUDE) \cup {MAX_ALTITUDE + 2}

NextSearch ==
    \/ \E a \in SearchInputs :
        FindPathCall(a) /\ UNCHANGED <<envVars, reflexVars, mbVars, driverVars>>
    \/ FindPathIterate /\ UNCHANGED <<envVars, reflexVars, mbVars, driverVars>>
    \/ FindPathExhausted /\ UNCHANGED <<envVars, reflexVars, mbVars, driverVars>>

SpecSearch ==
    /\ InitPlanner
    /\ [][NextSearch]_vars
    /\ WF_vars(FindPathIterate /\ UNCHANGED <<envVars, reflexVars, mbVars, driverVars>>)
    /\ WF_vars(FindPathExhausted /\ UNCHANGED <<envVars, reflexVars, mbVars, driverVars>>)

InRangeStart == search.start \in MIN_ALTITUDE..MAX_ALTITUDE

\* the distance of an altitude from the safe band [4, 6]
BandDistance(a) == IF a < 4 THEN 4 - a ELSE IF a > 6 THEN a - 6 ELSE 0

\* C21: findPath returns for every start altitude in [0, 10], and by
\* expanding a goal node: the open set is never empty while the loop runs,
\* the node selected last has an altitude in [4, 6], and nodesExplored is
\* the number of iterations made, heuristic(start) + 1.
C21_FindPathTerminates ==
    /\ [](InRangeStart =>
            /\ search.pc = "loop" =>
                   /\ search.openSet # <<>>
                   /\ search.nodesExplored <= BandDistance(search.start)
                   /\ search.nodesExplored = Cardinality(search.closedSet)
            /\ search.pc = "done" =>
                   /\ search.nodes[search.current].altitude \in 4..6
                   /\ search.result.totalCost < Infinity
                   /\ search.result.nodesExplored = search.nodesExplored
                   /\ search.result.nodesExplored = Heuristic(search.start) + 1
                   /\ search.result.nodesExplored = BandDistance(search.start) + 1)
    /\ (search.pc = "loop" /\ InRangeStart) ~> (search.pc = "done" /\ InRangeStart)

C21_Witness ==
    /\ search.pc = "done"
    /\ search.start = 0
    /\ search.result.nodesExplored = 5
    /\ search.nodes[search.current].altitude = 4
    /\ search.closedSet = {0, 1, 2, 3}

----------------------------------------------------------------------------
(* The wind window inside the orchestration.                                *)

\* the disturbances the environment drew in the ticks since the start or the
\* last reset, oldest first
DrawnSinceReset == [i \in 1..Len(logs) |-> logs[i].wind]

\* C22: whenever the ModelBasedAgent decides inside runStep, its wind window
\* is the most recent min(n, 5) disturbances the environment drew since the
\* last reset, n being the number of ticks since that reset, also after
\* ticks decided by the planner or by the reflex agent.
C22_BeliefTracksEnvironment ==
    (LastOp = "runStep" /\ CallsOf("modelBasedAgent.decideAction") # {}) =>
        LET n == Len(logs)
            k == IF n < HISTORY_WINDOW THEN n ELSE HISTORY_WINDOW
        IN  /\ step = n
            /\ windHistory = LastOf(DrawnSinceReset, k)

----------------------------------------------------------------------------
(* The orchestration on an environment constructed at any altitude and a    *)
(* ModelBasedAgent that has observed any winds before the first tick.       *)

\* the wind windows updateModel can produce
Windows == UNION {[1..n -> Winds] : n \in 0..HISTORY_WINDOW}

InitLoop ==
    /\ \E x \in MIN_ALTITUDE..MAX_ALTITUDE : EnvInit(x)
    /\ \E window \in Windows :
        windHistory = window /\ observed = window /\ mbLog = <<>>
    /\ ReflexInit /\ PlannerInit /\ DriverInit
    /\ trace = <<[op |-> "DroneSimulation"]>>

NextLoop ==
    \/ step < MaxLoopTicks /\ RunStep
    \/ ToggleRunning
    \/ HandleReset
    \/ HandleAgentToggle

SpecLoop == InitLoop /\ [][NextLoop]_vars

\* C23: over a complete tick (disturbance, then the action of the planner or
\* of the selected agent) the distance of the altitude from the safe band
\* [4, 6] does not grow, whatever the altitude in [0, 10], the disturbance,
\* the selected agent and its wind window; so an altitude inside the band at
\* the end of a tick is inside it at the end of the next.
C23_DistanceNeverGrows ==
    [][ step' = step + 1 =>
            /\ LastOp' = "runStep"
            /\ altitude \in 0..10
            /\ BandDistance(altitude') <= BandDistance(altitude)
            /\ IsInSafeZone(altitude) => IsInSafeZone(altitude')
      ]_vars

C23_Witness ==
    /\ LastOp = "runStep"
    /\ step = 1
    /\ history[1].altitude = 4
    /\ logs[1].wind = -1
    /\ logs[1].agent = "Model-Based Agent"
    /\ windHistory = <<1, 1, 1, 1, -1>>
    /\ logs[1].action = 1
    /\ altitude = 4

----------------------------------------------------------------------------
(* The planner in the runs of the component as written.                     *)

\* C24: in the component, whose environment is created at 5 and only ever
\* reset to 5, environment.isCritical() is false at the check of every tick,
\* whatever the disturbances and the interleaving of ticks, resets and agent
\* toggles: getNextAction is never called and every log entry has
\* usingAStar = false.
C24_PlannerNeverConsulted ==
    /\ altitude \in SAFE_MIN..SAFE_MAX
    /\ \A i \in 1..Len(logs) : ~logs[i].usingAStar /\ logs[i].agent # "A* Planner"
    /\ LastOp = "runStep" =>
           /\ trace[4].op = "environment.isCritical"
           /\ trace[4].ret = FALSE
           /\ trace[3].ret \in 3..7
           /\ CallsOf("aStarPlanner.getNextAction") = {}
           /\ CallsOf("aStarPlanner.explainPath") = {}

C24_Witness ==
    /\ LastOp = "runStep"
    /\ step = 2
    /\ trace[2].ret = 1
    /\ trace[3].ret = 7
    /\ trace[4].ret = FALSE
    /\ logs[2].agent = "Reflex Agent"
    /\ logs[2].action = -1
    /\ altitude = 6

----------------------------------------------------------------------------
(* The planner and the reflex agent, asked by the same client.              *)

InitAgree ==
    /\ EnvInit(5)
    /\ ReflexInit /\ MBInit /\ PlannerInit /\ DriverInit
    /\ trace = <<[op |-> "new AStarPlanner"], [op |-> "new ReflexAgent"]>>

NextAgree ==
    \/ \E a \in AltitudeInputs :
        ReflexDecide(a) /\ UNCHANGED <<envVars, mbVars, plannerVars, driverVars>>
    \/ ReflexReset /\ UNCHANGED <<envVars, mbVars, plannerVars, driverVars>>
    \/ \E a \in AltitudeInputs :
        GetNextActionCall(a) /\ UNCHANGED <<envVars, reflexVars, mbVars, driverVars>>

SpecAgree == InitAgree /\ [][NextAgree]_vars

\* C25: for every altitude a in [0, 10], getNextAction(a) of the planner is
\* the action decideAction(a) of the reflex agent: +1 below 4, -1 above 6
\* and 0 inside [4, 6].
C25_PlannerAgreesWithReflex ==
    (LastOp = "aStarPlanner.getNextAction" /\ trace[1].arg \in 0..10) =>
        /\ trace[1].ret = IF trace[1].arg < 4 THEN 1
                          ELSE IF trace[1].arg > 6 THEN -1 ELSE 0
        /\ \A i \in 1..Len(reflexLog) :
               reflexLog[i].altitude = trace[1].arg =>
                   reflexLog[i].action = trace[1].ret

C25_Witness ==
    /\ LastOp = "aStarPlanner.getNextAction"
    /\ trace[1].arg = 3
    /\ trace[1].ret = 1
    /\ reflexLog = <<[altitude |-> 3, action |-> 1], [altitude |-> 7, action |-> -1]>>

----------------------------------------------------------------------------
(* The direction of the ModelBasedAgent's corrections, under SpecModel.     *)

\* C26: for every altitude a in [0, 10] and every wind window of at most 5
\* values from {-1, 0, +1}, decideAction(a) returns +1 only if a <= 4 and -1
\* only if a >= 6: applying the action keeps an altitude of [4, 6] in
\* [4, 6] and does not move any other altitude further from the band.
C26_NeverPushesAway ==
    (/\ LastOp = "modelBasedAgent.decideAction"
     /\ trace[1].arg \in 0..10
     /\ Len(windHistory) <= 5
     /\ \A i \in 1..Len(windHistory) : windHistory[i] \in {-1, 0, 1}) =>
        LET a == trace[1].arg
            action == trace[1].ret
        IN  /\ action \in {-1, 0, 1}
            /\ action = 1 => a <= 4
            /\ action = -1 => a >= 6
            /\ a \in 4..6 => (a + action) \in 4..6
            /\ BandDistance(Clamp0to10(a + action)) <= BandDistance(a)
            /\ mbLog[Len(mbLog)].altitude = a
            /\ mbLog[Len(mbLog)].action = action

C26_Witness ==
    /\ LastOp = "modelBasedAgent.decideAction"
    /\ windHistory = <<-1, -1, -1, -1, 0>>
    /\ trace[1].arg = 4
    /\ trace[1].ret = 1
    /\ mbLog[1].windTrend = Rat(-4, 5)

----------------------------------------------------------------------------
(* Recovery in calm air, under SpecTick.                                    *)

\* the altitude at the end of tick j since the start or the last reset, tick
\* 0 being the start or the reset itself
AltitudeAtTick(j) == IF j = 0 THEN history[1].altitude ELSE logs[j].altitude

\* the ticks after tick j all drew the disturbance 0
CalmSince(j) == \A i \in (j + 1)..Len(logs) : logs[i].wind = 0

\* C27: from any altitude in [0, 10], with either agent selected, once every
\* disturbance is 0 the altitude is inside [4, 6] after as many further
\* ticks as its distance from the band was, and stays inside from then on:
\* after k ticks of disturbance 0 from a distance d the distance is at most
\* d - k, or 0 when k >= d.
C27_CalmRecovery ==
    /\ Len(logs) = step
    /\ Len(logs) > 0 => altitude = logs[Len(logs)].altitude
    /\ \A j \in 0..Len(logs) :
           CalmSince(j) =>
               BandDistance(altitude) <=
                   Max(0, BandDistance(AltitudeAtTick(j)) - (Len(logs) - j))

C27_Witness ==
    /\ LastOp = "runStep"
    /\ step = 4
    /\ history[1].altitude = 0
    /\ CalmSince(0)
    /\ logs[1].altitude = 1 /\ logs[1].usingAStar
    /\ logs[3].altitude = 3 /\ logs[3].usingAStar
    /\ logs[4].agent = "Model-Based Agent"
    /\ altitude = 4

============================================================================
